---- MODULE Spec2Model ----
(***************************************************************************)
(* Model of the mutual-fund dashboard (reports/Category_Explorer.py and    *)
(* reports/pages/1_Efficient_Frontier.py): the Pareto frontier filter, the *)
(* AUM-weighted category average and the render of the Efficient Frontier  *)
(* page.  Numbers are integers in the unit of each column; a missing value *)
(* (pandas NaN) is the value NaN, and every comparison with it is false.   *)
(***************************************************************************)
EXTENDS Integers, Sequences, FiniteSets, TLC

\* ------------------------------------------------------------------ bounds
\* Largest metric value of a point handed to the frontier filter.
MaxVal == 2
\* Longest point list handed to the frontier filter.
MaxLen == 3
\* Calls of the frontier filter on one collection.
MaxCalls == 2
\* Rows of a group handed to weighted_avg; its metric values are the
\* multiples of ten up to 10 * MaxMetric, its AUM values -1..MaxAum.
MaxGroup == 3
MaxMetric == 3
MaxAum == 1

\* ---------------------------------------------------------- missing values
\* pandas' missing value; fillna/dropna/min/max/sum treat it apart.
NaN == -999

isna(v) == v = NaN

\* float comparisons: any comparison with a missing operand is False.
Le(a, b) == ~isna(a) /\ ~isna(b) /\ a <= b
Lt(a, b) == ~isna(a) /\ ~isna(b) /\ a < b
Ge(a, b) == ~isna(a) /\ ~isna(b) /\ a >= b
Gt(a, b) == ~isna(a) /\ ~isna(b) /\ a > b

VARIABLES
    \* --- the frontier filter called on its own
    frame,      \* the DataFrame object handed to is_pareto_efficient
    given,      \* its content before the first call
    runs,       \* the boolean sequences returned by the calls so far
    \* --- the Efficient Frontier page
    parquet,    \* output/all_funds.parquet
    cache,      \* st.cache_data's entry for load_data: <<>> or <<table>>
    df,         \* the module-level df of the running script
    sidebar,    \* the values of the sidebar widgets in this run
    pc,         \* where the script run is
    df_single,  \* the per-render working copy
    warned,     \* st.warning was shown in this run
    stats,      \* efficient_count, total_count and the efficiency rate
    \* --- the category aggregation called on its own
    group,      \* the rows of one category handed to weighted_avg
    avg,        \* <<>> or <<the value weighted_avg returned>>
    \* --- the Category Explorer page
    category_stats  \* the table of per-category aggregates of this run

pareto_vars == <<frame, given, runs>>
page_vars == <<parquet, cache, df, sidebar, pc, df_single, warned, stats>>
agg_vars == <<group, avg, category_stats>>
vars == <<pareto_vars, page_vars, agg_vars>>

\* ------------------------------------------------- is_pareto_efficient
\* Faulty variant: the second disjunct loses its strict inequality on x, so equal
\* points dominate each other.
DominatedByLoose(df_, i, j, x_col, y_col) ==
    \/ (Le(df_[j][x_col], df_[i][x_col]) /\ Gt(df_[j][y_col], df_[i][y_col]))
    \/ (Le(df_[j][x_col], df_[i][x_col]) /\ Ge(df_[j][y_col], df_[i][y_col]))

\* Faulty variant: both inequalities strict on both axes.
DominatedByStrict(df_, i, j, x_col, y_col) ==
    Lt(df_[j][x_col], df_[i][x_col]) /\ Gt(df_[j][y_col], df_[i][y_col])

\* The condition of the inner if: point i is dominated by point j.
DominatedBy(df_, i, j, x_col, y_col) ==
    \/ (Le(df_[j][x_col], df_[i][x_col]) /\ Gt(df_[j][y_col], df_[i][y_col]))
    \/ (Lt(df_[j][x_col], df_[i][x_col]) /\ Ge(df_[j][y_col], df_[i][y_col]))

\* The inner loop from index j on: the value of `dominated` when it ends,
\* by exhaustion or by the break.
RECURSIVE InnerLoop(_, _, _, _, _)
InnerLoop(df_, i, j, x_col, y_col) ==
    IF j > Len(df_) THEN FALSE
    ELSE IF i # j /\ DominatedBy(df_, i, j, x_col, y_col) THEN TRUE
    ELSE InnerLoop(df_, i, j + 1, x_col, y_col)

\* The outer loop from index i on, is_efficient being the list built so far.
RECURSIVE OuterLoop(_, _, _, _, _)
RECURSIVE OuterLoopNoNot(_, _, _, _, _)
\* Faulty variant: appends `dominated` instead of `not dominated`.
OuterLoopNoNot(df_, i, x_col, y_col, is_efficient) ==
    IF i > Len(df_) THEN is_efficient
    ELSE OuterLoop(df_, i + 1, x_col, y_col,
                   Append(is_efficient, InnerLoop(df_, i, 1, x_col, y_col)))

OuterLoop(df_, i, x_col, y_col, is_efficient) ==
    IF i > Len(df_) THEN is_efficient
    ELSE OuterLoop(df_, i + 1, x_col, y_col,
                   Append(is_efficient, ~InnerLoop(df_, i, 1, x_col, y_col)))

is_pareto_efficient(df_, x_col, y_col) == OuterLoop(df_, 1, x_col, y_col, <<>>)

\* ------------------------------------------------------------ fund table
\* Bounds of the fund tables and of the user's moves on the page.
NumFunds == 2
MaxLevel == 1
MaxStops == 2
MaxMoved == 1

\* Units: returns, sd in percent; expense_ratio in tenths of a percent
\* (the slider's step 0.1); fund_age_years in half years (step 0.5);
\* aum_cr in crores.
ExpenseScale == 10
AgeScale == 2
AumMinStep == 100
AumMaxStep == 500

ReturnCols == {"return_1m", "return_3m", "return_6m", "return_1y",
               "return_3y", "return_5y", "return_since_inception"}
NumericCols == ReturnCols \cup {"sd", "sharpe", "expense_ratio", "alpha",
                                "beta", "aum_cr", "fund_age_years"}
Columns == NumericCols \cup {"fund_name", "fund_category"}

\* The categories a table may hold, in sorted() order.
Categories == <<"elss", "flexi-cap">>
Levels == 0..MaxLevel

\* A fund record: the cost-like columns carry `risk`, the benefit-like ones
\* `gain`, each in its column's unit, and column `hole` is missing.
MkFund(name, cat, risk, gain, hole) ==
    [c \in Columns |->
        IF c = "fund_name" THEN name
        ELSE IF c = "fund_category" THEN cat
        ELSE IF c = hole THEN NaN
        ELSE IF c \in {"sd", "beta", "expense_ratio", "fund_age_years"} THEN risk
        ELSE IF c = "aum_cr" THEN AumMinStep * gain
        ELSE gain]

\* The columns a table may lack a value in (at most one cell per table).
HoleCols == {"sd", "expense_ratio", "beta", "aum_cr", "fund_age_years",
             "sharpe", "alpha", "return_5y", "return_1y"}
HoleChoices == {<<0, "none">>} \cup ((1..NumFunds) \X HoleCols)
FundParams == {"elss", "flexi-cap"} \X Levels \X Levels

ParquetFiles ==
    { [k \in 1..NumFunds |->
          MkFund(k, p[k][1], p[k][2], p[k][3],
                 IF h[1] = k THEN h[2] ELSE "none")] :
      p \in [1..NumFunds -> FundParams], h \in HoleChoices }

\* ---------------------------------------------------------- pandas helpers
Range(s) == { s[k] : k \in DOMAIN s }

\* Series.min() / Series.max(): missing values are skipped.
ColValues(df_, col) == { r[col] : r \in Range(df_) } \ {NaN}
ColMin(df_, col) ==
    LET vs == ColValues(df_, col)
    IN  IF vs = {} THEN NaN ELSE CHOOSE v \in vs : \A u \in vs : v <= u
ColMax(df_, col) ==
    LET vs == ColValues(df_, col)
    IN  IF vs = {} THEN NaN ELSE CHOOSE v \in vs : \A u \in vs : v >= u

\* df['aum_cr'] = df['aum_cr'].fillna(0)
load_data(file) ==
    [k \in DOMAIN file |->
        [file[k] EXCEPT !["aum_cr"] = IF isna(@) THEN 0 ELSE @]]

\* Faulty variant: no row is dropped.
get_filtered_data_keep_all(dataframe, x_col, y_col) == dataframe

\* dataframe.dropna(subset=[x_col, y_col, 'aum_cr'])
get_filtered_data(dataframe, x_col, y_col) ==
    LET Complete(r) == ~isna(r[x_col]) /\ ~isna(r[y_col]) /\ ~isna(r["aum_cr"])
    IN  SelectSeq(dataframe, Complete)

\* ------------------------------------------------------------ the sidebar
return_period_options ==
    [l \in {"1 Month", "3 Months", "6 Months", "1 Year", "3 Years", "5 Years",
            "Since Inception"} |->
        CASE l = "1 Month" -> "return_1m"
          [] l = "3 Months" -> "return_3m"
          [] l = "6 Months" -> "return_6m"
          [] l = "1 Year" -> "return_1y"
          [] l = "3 Years" -> "return_3y"
          [] l = "5 Years" -> "return_5y"
          [] l = "Since Inception" -> "return_since_inception"]

\* The periods the user picks among here: the default and one other.
Periods == {"5 Years", "1 Year"}

\* view_options[selected_view][0]
view_options ==
    [v \in {"Return vs Risk (SD)", "Return vs Expense Ratio",
            "Sharpe vs Expense Ratio", "Alpha vs Beta"} |->
        CASE v = "Return vs Risk (SD)" -> "sd"
          [] v = "Return vs Expense Ratio" -> "expense_ratio"
          [] v = "Sharpe vs Expense Ratio" -> "expense_ratio"
          [] v = "Alpha vs Beta" -> "beta"]

return_col(s) == return_period_options[s.selected_period]
x_col(s) == view_options[s.selected_view]
y_col(s) ==
    IF s.selected_view = "Sharpe vs Expense Ratio" THEN "sharpe"
    ELSE IF s.selected_view = "Alpha vs Beta" THEN "alpha"
    ELSE return_col(s)

\* sorted(df['fund_category'].unique().tolist())
all_categories(df_) ==
    LET Present(c) == \E r \in Range(df_) : r["fund_category"] = c
    IN  SelectSeq(Categories, Present)

\* The selectbox's default: 'flexi-cap' when present, else the first one.
default_category(df_) ==
    IF "flexi-cap" \in Range(all_categories(df_)) THEN "flexi-cap"
    ELSE all_categories(df_)[1]

\* The sliders: min_value, max_value, default value and step of each, from
\* the ranges the script computes over the whole table.
Sliders == {"min_return", "max_return", "max_sd", "min_aum", "max_aum",
            "max_expense", "min_age"}

slider_args(df_, rc) ==
    LET data_return_min == ColMin(df_, rc)
        data_return_max == ColMax(df_, rc) + 1
        data_sd_max == ColMax(df_, "sd") + 1
        data_aum_min == ColMin(df_, "aum_cr")
        data_aum_max == ColMax(df_, "aum_cr") + 1
        data_expense_max == ColMax(df_, "expense_ratio") + ExpenseScale
        data_age_max == ColMax(df_, "fund_age_years") + AgeScale
    IN  [min_return |-> <<data_return_min, data_return_max, data_return_min, 1>>,
         max_return |-> <<data_return_min, data_return_max, data_return_max, 1>>,
         max_sd |-> <<0, data_sd_max, data_sd_max, 1>>,
         min_aum |-> <<data_aum_min, data_aum_max, data_aum_min, AumMinStep>>,
         max_aum |-> <<data_aum_min, data_aum_max, data_aum_max, AumMaxStep>>,
         max_expense |-> <<0, data_expense_max, data_expense_max, 1>>,
         min_age |-> <<0, data_age_max, 0, 1>>]

\* The positions the user may leave a slider at: its default, or one of the
\* first MaxStops steps up from its minimum.
SliderStops(a) ==
    {a[3]} \cup { v \in { a[1] + k * a[4] : k \in 0..MaxStops } : v <= a[2] }

\* The widget values of a first run: every widget at its default.
default_sidebar(df_, cat, period, view) ==
    LET a == slider_args(df_, return_period_options[period])
    IN  [single_category |-> cat, selected_period |-> period,
         selected_view |-> view,
         min_return |-> a.min_return[3], max_return |-> a.max_return[3],
         max_sd |-> a.max_sd[3], min_aum |-> a.min_aum[3],
         max_aum |-> a.max_aum[3], max_expense |-> a.max_expense[3],
         min_age |-> a.min_age[3]]

\* The sliders of sidebar s that are off their defaults.
Moved(df_, s) ==
    { k \in Sliders : s[k] # slider_args(df_, return_col(s))[k][3] }

\* The widget values a rerun may see: any category of the table, any period
\* and view, and at most MaxMoved sliders moved off their defaults.
RECURSIVE MoveSliders(_, _, _)
MoveSliders(df_, base, n) ==
    IF n = 0 THEN {base}
    ELSE LET prev == MoveSliders(df_, base, n - 1)
             a == slider_args(df_, return_col(base))
         IN  prev \cup UNION { { [q EXCEPT ![k] = v] : v \in SliderStops(a[k]) } :
                               q \in prev, k \in Sliders }

Sidebars(df_) ==
    { s \in UNION { MoveSliders(df_, default_sidebar(df_, c, p, v), MaxMoved) :
                    c \in Range(all_categories(df_)), p \in Periods,
                    v \in DOMAIN view_options } :
      Cardinality(Moved(df_, s)) <= MaxMoved }

\* ----------------------------------------------------------- the render
\* Faulty variant: the expense-ratio term of the mask is lost.
KeepRowNoExpense(r, yc, s) ==
    /\ Ge(r[yc], s.min_return)
    /\ Le(r[yc], s.max_return)
    /\ Le(r["sd"], s.max_sd)
    /\ Ge(r["aum_cr"], s.min_aum)
    /\ Le(r["aum_cr"], s.max_aum)
    /\ Ge(r["fund_age_years"], s.min_age)

\* One term of the boolean mask of the user filters, for row r.
KeepRow(r, yc, s) ==
    /\ Ge(r[yc], s.min_return)
    /\ Le(r[yc], s.max_return)
    /\ Le(r["sd"], s.max_sd)
    /\ Ge(r["aum_cr"], s.min_aum)
    /\ Le(r["aum_cr"], s.max_aum)
    /\ Le(r["expense_ratio"], s.max_expense)
    /\ Ge(r["fund_age_years"], s.min_age)

\* df[df['fund_category'] == single_category]
SelectCategory(df_, cat) ==
    LET InCat(r) == r["fund_category"] = cat
    IN  SelectSeq(df_, InCat)

\* df_single as the script has it when it reaches the empty check.
FilterSingle(df_, s) ==
    LET Keep(r) == KeepRow(r, y_col(s), s)
    IN  SelectSeq(get_filtered_data(SelectCategory(df_, s.single_category),
                                    x_col(s), y_col(s)),
                  Keep)

\* Faulty variant: the empty check never fires.
NoFundsMatchNever(single) == FALSE

\* if len(df_single) == 0
NoFundsMatch(single) == Len(single) = 0

\* Faulty variant: the two labels of the map are swapped.
frontier_status_swapped(flag) == IF flag THEN "Dominated" ELSE "Efficient Frontier"

\* The two derived columns attached to the working copy.
frontier_status(flag) == IF flag THEN "Efficient Frontier" ELSE "Dominated"

Annotate(single, flags) ==
    [k \in DOMAIN single |->
        [c \in DOMAIN single[k] \cup {"is_efficient", "frontier_status"} |->
            IF c = "is_efficient" THEN flags[k]
            ELSE IF c = "frontier_status" THEN frontier_status(flags[k])
            ELSE single[k][c]]]

\* efficient_count / total_count * 100, as the exact fraction; a division by
\* zero gives no number.
Divide(n, d) == IF d = 0 THEN [num |-> NaN, den |-> 0] ELSE [num |-> n, den |-> d]

NoStats == [efficient_count |-> NaN, total_count |-> NaN,
            rate |-> [num |-> NaN, den |-> NaN]]
NoSidebar == [single_category |-> "", selected_period |-> "",
              selected_view |-> "", min_return |-> NaN, max_return |-> NaN,
              max_sd |-> NaN, min_aum |-> NaN, max_aum |-> NaN,
              max_expense |-> NaN, min_age |-> NaN]

\* The variables of the other two specifications, at rest.
NoParetoCall == frame = <<>> /\ given = <<>> /\ runs = <<>>
NoAggregation == group = <<>> /\ avg = <<>> /\ category_stats = <<>>
NoRender ==
    /\ parquet = <<>> /\ cache = <<>> /\ df = <<>> /\ sidebar = NoSidebar
    /\ pc = "waiting" /\ df_single = <<>> /\ warned = FALSE /\ stats = NoStats

\* The table a file can be rendered from: every column a slider range is
\* computed from has a value.
Renderable(file) ==
    \A c \in {"sd", "expense_ratio", "fund_age_years"} \cup
             { return_period_options[p] : p \in Periods } :
        ColValues(file, c) # {}

PageInit ==
    /\ parquet \in { f \in ParquetFiles : Renderable(f) }
    /\ cache = <<>>
    /\ df = <<>>
    /\ sidebar = NoSidebar
    /\ pc = "waiting"
    /\ df_single = <<>>
    /\ warned = FALSE
    /\ stats = NoStats
    /\ NoParetoCall
    /\ NoAggregation

\* A script run from its first line to the empty check: load_data (read
\* once, then served from the cache), the sidebar, the category, dropna and
\* the user filters, then st.warning and st.stop or the caption.
RunScript ==
    /\ pc = "waiting"
    /\ LET table == IF cache = <<>> THEN load_data(parquet) ELSE cache[1]
       IN  /\ cache' = <<table>>
           /\ df' = table
           /\ \E s \in IF cache = <<>>
                       THEN { default_sidebar(table, default_category(table),
                                              "5 Years", "Return vs Risk (SD)") }
                       ELSE Sidebars(table) :
                /\ sidebar' = s
                /\ df_single' = FilterSingle(table, s)
                /\ IF NoFundsMatch(FilterSingle(table, s))
                   THEN warned' = TRUE /\ pc' = "stopped"
                   ELSE warned' = FALSE /\ pc' = "frontier"
    /\ stats' = NoStats
    /\ UNCHANGED <<parquet, pareto_vars, agg_vars>>

\* Faulty variant: df_single is a view of df, so the two columns land in the loaded
\* table and in the cached one.
CalculateFrontierOnView ==
    /\ pc = "frontier"
    /\ df_single' = Annotate(df_single,
                             is_pareto_efficient(df_single, x_col(sidebar),
                                                 y_col(sidebar)))
    /\ df' = [k \in DOMAIN df |->
                 IF \E n \in DOMAIN df_single :
                        df_single[n]["fund_name"] = df[k]["fund_name"]
                 THEN LET n == CHOOSE n \in DOMAIN df_single :
                                   df_single[n]["fund_name"] = df[k]["fund_name"]
                      IN  df_single'[n]
                 ELSE df[k]]
    /\ cache' = <<df'>>
    /\ pc' = "statistics"
    /\ UNCHANGED <<parquet, sidebar, warned, stats, pareto_vars, agg_vars>>

\* df_single['is_efficient'] = ...; df_single['frontier_status'] = ...
CalculateFrontier ==
    /\ pc = "frontier"
    /\ df_single' = Annotate(df_single,
                             is_pareto_efficient(df_single, x_col(sidebar),
                                                 y_col(sidebar)))
    /\ pc' = "statistics"
    /\ UNCHANGED <<parquet, cache, df, sidebar, warned, stats, pareto_vars, agg_vars>>

\* efficient_count, total_count and the three st.metric calls.
ShowStatistics ==
    /\ pc = "statistics"
    /\ LET efficient_count ==
               Cardinality({ k \in DOMAIN df_single : df_single[k]["is_efficient"] })
           total_count == Len(df_single)
       IN  stats' = [efficient_count |-> efficient_count,
                     total_count |-> total_count,
                     rate |-> Divide(efficient_count * 100, total_count)]
    /\ pc' = "done"
    /\ UNCHANGED <<parquet, cache, df, sidebar, df_single, warned, pareto_vars, agg_vars>>

\* The run is over (st.stop or the last line): its variables are gone, the
\* cache stays, and the next interaction starts a new run.
EndRun ==
    /\ pc \in {"stopped", "done"}
    /\ pc' = "waiting"
    /\ df' = <<>>
    /\ sidebar' = NoSidebar
    /\ df_single' = <<>>
    /\ warned' = FALSE
    /\ stats' = NoStats
    /\ UNCHANGED <<parquet, cache, pareto_vars, agg_vars>>

Next == RunScript \/ CalculateFrontier \/ ShowStatistics \/ EndRun

Spec == PageInit /\ [][Next]_vars

\* The script run has passed the empty check (it stopped there or went on).
PastCheck == pc \in {"stopped", "frontier", "statistics", "done"}
\* The script run has reached the call of is_pareto_efficient.
AtFrontier == pc \in {"frontier", "statistics", "done"}
\* Fund k of the table is a row of the working copy.
InSingle(k) == \E r \in Range(df_single) : r["fund_name"] = k

\* C6: when the filtered fund set is empty the render warns and stops: it
\* never reaches the call of is_pareto_efficient nor the efficiency rate,
\* so the rate's division only ever runs with total_count >= 1.
C6_EmptyStopsBeforeFrontier ==
    /\ (PastCheck /\ Len(FilterSingle(df, sidebar)) = 0) =>
           (pc = "stopped" /\ warned /\ df_single = <<>> /\ stats = NoStats)
    /\ AtFrontier => (Len(df_single) >= 1 /\ ~warned)
    /\ pc \in {"stopped", "frontier", "statistics"} => stats = NoStats
    /\ pc = "done" =>
           /\ stats.total_count >= 1
           /\ stats.total_count = Len(df_single)
           /\ stats.rate = [num |-> stats.efficient_count * 100,
                            den |-> stats.total_count]

\* A render stopped on an empty filtered set although the selected
\* category has funds in the table.
C6_Witness ==
    /\ pc = "stopped" /\ warned
    /\ SelectCategory(df, sidebar.single_category) # <<>>

\* C8: every row handed to is_pareto_efficient has a value for the selected
\* x metric, the selected y metric and AUM; rows of the category missing x
\* or y are dropped before the filter runs, and a fund whose AUM is missing
\* in the file is loaded with AUM 0 and is not dropped for it.
C8_NoMissingAxisAtFrontier ==
    PastCheck =>
        /\ \A r \in Range(df_single) :
               /\ ~isna(r[x_col(sidebar)])
               /\ ~isna(r[y_col(sidebar)])
               /\ ~isna(r["aum_cr"])
        /\ \A k \in DOMAIN df :
               (isna(df[k][x_col(sidebar)]) \/ isna(df[k][y_col(sidebar)]))
                   => ~InSingle(k)
        /\ \A k \in DOMAIN parquet :
               isna(parquet[k]["aum_cr"]) =>
                   /\ df[k]["aum_cr"] = 0
                   /\ (/\ df[k]["fund_category"] = sidebar.single_category
                       /\ ~isna(df[k][x_col(sidebar)])
                       /\ ~isna(df[k][y_col(sidebar)])
                       /\ KeepRow(df[k], y_col(sidebar), sidebar))
                      => InSingle(k)

\* In the Alpha vs Beta view a fund of the selected category that lacks
\* beta was dropped and the other funds went on to the frontier filter.
C8_Witness ==
    /\ AtFrontier
    /\ sidebar.selected_view = "Alpha vs Beta"
    /\ \E k \in DOMAIN df :
           /\ df[k]["fund_category"] = sidebar.single_category
           /\ isna(df[k]["beta"])
           /\ ~InSingle(k)

\* C9: renders leave the loaded table as load_data returned it, without
\* the derived columns; is_efficient and frontier_status exist only on the
\* working copy, whose other cells are those of the table, and
\* frontier_status is 'Efficient Frontier' exactly when is_efficient is
\* true and 'Dominated' otherwise.
C9_LoadedTableUnchanged ==
    /\ df \in {<<>>, load_data(parquet)}
    /\ cache \in {<<>>, <<load_data(parquet)>>}
    /\ PastCheck => df = load_data(parquet)
    /\ \A r \in Range(df) : DOMAIN r = Columns
    /\ \A r \in Range(df_single) :
           /\ \A c \in Columns : r[c] = df[r["fund_name"]][c]
           /\ IF pc \in {"statistics", "done"}
              THEN /\ DOMAIN r = Columns \cup {"is_efficient", "frontier_status"}
                   /\ r["is_efficient"] \in BOOLEAN
                   /\ r["is_efficient"] =>
                          r["frontier_status"] = "Efficient Frontier"
                   /\ ~r["is_efficient"] => r["frontier_status"] = "Dominated"
              ELSE DOMAIN r = Columns

\* A finished render whose working copy holds a frontier fund and a
\* dominated one.
C9_Witness ==
    /\ pc = "done"
    /\ \E r, q \in Range(df_single) :
           /\ r["frontier_status"] = "Efficient Frontier"
           /\ q["frontier_status"] = "Dominated"

\* C10: every fund that reaches the frontier computation is of the selected
\* category and meets the seven slider bounds at once, the return bounds
\* being applied to the selected y metric; a fund whose sd, expense_ratio
\* or fund_age_years is missing never reaches it, whatever the view and the
\* sliders.
C10_AllSliderBoundsHold ==
    PastCheck =>
        /\ \A r \in Range(df_single) :
               /\ r["fund_category"] = sidebar.single_category
               /\ \A c \in {y_col(sidebar), "sd", "aum_cr", "expense_ratio",
                             "fund_age_years"} : r[c] # NaN
               /\ sidebar.min_return <= r[y_col(sidebar)]
               /\ r[y_col(sidebar)] <= sidebar.max_return
               /\ r["sd"] <= sidebar.max_sd
               /\ sidebar.min_aum <= r["aum_cr"]
               /\ r["aum_cr"] <= sidebar.max_aum
               /\ r["expense_ratio"] <= sidebar.max_expense
               /\ r["fund_age_years"] >= sidebar.min_age
        /\ \A k \in DOMAIN df :
               (\E c \in {"sd", "expense_ratio", "fund_age_years"} : isna(df[k][c]))
                   => ~InSingle(k)

\* With every slider at its default and a view whose axes are alpha and
\* beta, a fund of the selected category that has both axes and lacks only
\* sd, expense_ratio or fund_age_years is left out while another fund goes
\* on to the frontier filter.
C10_Witness ==
    /\ AtFrontier
    /\ Moved(df, sidebar) = {}
    /\ sidebar.selected_view = "Alpha vs Beta"
    /\ \E k \in DOMAIN df :
           /\ df[k]["fund_category"] = sidebar.single_category
           /\ ~isna(df[k]["alpha"]) /\ ~isna(df[k]["beta"])
           /\ \E c \in {"sd", "expense_ratio", "fund_age_years"} : isna(df[k][c])
           /\ ~InSingle(k)

\* -------------------------------------- the frontier filter on its own
\* Every list of at most MaxLen fully populated points.
Points == [sd : 0..MaxVal, return_5y : 0..MaxVal]
PointLists == UNION { [1..n -> Points] : n \in 0..MaxLen }

ParetoInit ==
    /\ frame \in PointLists
    /\ given = frame
    /\ runs = <<>>
    /\ NoRender
    /\ NoAggregation

\* Faulty variant: the call drops the dominated rows from the frame it was given.
CallParetoInPlace ==
    /\ Len(runs) < MaxCalls
    /\ runs' = Append(runs, is_pareto_efficient(frame, "sd", "return_5y"))
    /\ frame' = LET flags == is_pareto_efficient(frame, "sd", "return_5y")
                    idx == [k \in DOMAIN frame |-> k]
                    Kept(k) == flags[k]
                    keep == SelectSeq(idx, Kept)
                IN  [n \in DOMAIN keep |-> frame[keep[n]]]
    /\ UNCHANGED <<given, page_vars, agg_vars>>

\* One call is_pareto_efficient(frame, 'sd', 'return_5y'): it reads the
\* frame through iloc and builds a new list.
CallPareto ==
    /\ Len(runs) < MaxCalls
    /\ runs' = Append(runs, is_pareto_efficient(frame, "sd", "return_5y"))
    /\ frame' = frame
    /\ UNCHANGED <<given, page_vars, agg_vars>>

NextPareto == CallPareto

SpecPareto == ParetoInit /\ [][NextPareto]_vars

\* Point j of the given collection is at least as good as point i on both
\* axes and strictly better on one (minimise x = sd, maximise y = return_5y).
Beats(j, i) ==
    \/ (given[j].sd <= given[i].sd /\ given[j].return_5y > given[i].return_5y)
    \/ (given[j].sd < given[i].sd /\ given[j].return_5y >= given[i].return_5y)

SamePoint(i, j) ==
    given[i].sd = given[j].sd /\ given[i].return_5y = given[j].return_5y

\* C1: every call returns a boolean sequence as long as the input, in input
\* order, whose entry i is true iff no other index j has (x_j <= x_i and
\* y_j > y_i) or (x_j < x_i and y_j >= y_i).
C1_ParetoContract ==
    \A r \in DOMAIN runs :
        /\ Len(runs[r]) = Len(given)
        /\ \A i \in DOMAIN given :
               /\ runs[r][i] \in BOOLEAN
               /\ runs[r][i] <=> ~\E j \in DOMAIN given \ {i} : Beats(j, i)

\* A call on three points returned both marks.
C1_Witness ==
    /\ runs # <<>>
    /\ Len(given) = MaxLen
    /\ \E i, j \in DOMAIN given : runs[1][i] /\ ~runs[1][j]

\* C2: on a non-empty input at least one point is marked efficient, and a
\* point with the largest y among the points of smallest x always is.
C2_FrontierNonEmpty ==
    \A r \in DOMAIN runs :
        Len(given) > 0 =>
            /\ \E i \in DOMAIN given : runs[r][i]
            /\ \A i \in DOMAIN given :
                   (/\ \A j \in DOMAIN given : given[i].sd <= given[j].sd
                    /\ \A j \in DOMAIN given :
                           given[j].sd = given[i].sd =>
                               given[j].return_5y <= given[i].return_5y)
                   => runs[r][i]

\* A call on three points of which only the best at the smallest x is
\* efficient.
C2_Witness ==
    /\ runs # <<>>
    /\ Len(given) = MaxLen
    /\ Cardinality({ i \in DOMAIN given : runs[1][i] }) = 1
    /\ \E i, j \in DOMAIN given : given[i].sd # given[j].sd

\* C3 as stated: whenever the input holds two points with identical x and
\* identical y, both copies are marked efficient.
C3_DuplicatesAlwaysEfficient ==
    \A r \in DOMAIN runs :
        \A i, j \in DOMAIN given :
            (i # j /\ SamePoint(i, j)) => (runs[r][i] /\ runs[r][j])

\* C3 amended: two points with identical x and identical y get the same
\* mark; both are marked efficient iff no point of the input dominates
\* them (a copy never dominates the other), and both dominated otherwise.
C3_DuplicatesShareMark ==
    \A r \in DOMAIN runs :
        \A i, j \in DOMAIN given :
            (i # j /\ SamePoint(i, j)) =>
                /\ ~Beats(i, j) /\ ~Beats(j, i)
                /\ runs[r][i] = runs[r][j]
                /\ runs[r][i] <=>
                       ~\E k \in DOMAIN given : ~SamePoint(k, i) /\ Beats(k, i)

\* A call on two identical points and a third one they dominate: both
\* copies are marked efficient.
C3_Witness ==
    /\ runs # <<>>
    /\ \E i, j, k \in DOMAIN given :
           /\ i # j /\ SamePoint(i, j)
           /\ runs[1][i] /\ runs[1][j]
           /\ Beats(i, k) /\ ~runs[1][k]

\* C4: every fund labelled 'Dominated' is dominated by a fund of the same
\* filtered set labelled 'Efficient Frontier' (x no higher, y no lower,
\* strictly better on one axis).
C4_DominatedHasFrontierDominator ==
    \A r \in DOMAIN runs :
        \A i \in DOMAIN given :
            frontier_status(runs[r][i]) = "Dominated" =>
                \E j \in DOMAIN given :
                    /\ frontier_status(runs[r][j]) = "Efficient Frontier"
                    /\ given[j].sd <= given[i].sd
                    /\ given[j].return_5y >= given[i].return_5y
                    /\ (given[j].sd < given[i].sd
                        \/ given[j].return_5y > given[i].return_5y)

\* A fund dominated by another dominated fund, so that its frontier
\* dominator is a third one.
C4_Witness ==
    /\ runs # <<>>
    /\ \E i, j \in DOMAIN given :
           /\ i # j /\ Beats(j, i)
           /\ frontier_status(runs[1][i]) = "Dominated"
           /\ frontier_status(runs[1][j]) = "Dominated"

RECURSIVE SeriesSum(_)
SeriesSum(series) ==
    IF series = <<>> THEN 0
    ELSE (IF isna(Head(series)) THEN 0 ELSE Head(series)) + SeriesSum(Tail(series))

\* Series.count(): the values that are not missing.
SeriesCount(series) == Cardinality({ k \in DOMAIN series : ~isna(series[k]) })

\* Series.mean(): the mean of the values that are not missing.
SeriesMean(series) == Divide(SeriesSum(series), SeriesCount(series))

\* group[col] * weights: missing where either factor is.
Times(a, b) ==
    [k \in DOMAIN a |-> IF isna(a[k]) \/ isna(b[k]) THEN NaN ELSE a[k] * b[k]]

Column(frame_, col) == [k \in DOMAIN frame_ |-> frame_[k][col]]

\* Faulty variant: the weights of the rows whose metric is missing are left
\* out of the denominator too.
weighted_avg_present(group_, col) ==
    LET weights == Column(group_, "aum_cr")
        present == [k \in DOMAIN group_ |->
                       IF isna(group_[k][col]) THEN NaN ELSE weights[k]]
    IN  IF SeriesSum(weights) > 0
        THEN Divide(SeriesSum(Times(Column(group_, col), weights)),
                    SeriesSum(present))
        ELSE SeriesMean(Column(group_, col))

\* Faulty variant: the test on the total weight is >= 0 instead of > 0.
weighted_avg_ge(group_, col) ==
    LET weights == Column(group_, "aum_cr")
    IN  IF SeriesSum(weights) >= 0
        THEN Divide(SeriesSum(Times(Column(group_, col), weights)),
                    SeriesSum(weights))
        ELSE SeriesMean(Column(group_, col))

weighted_avg(group_, col) ==
    LET weights == Column(group_, "aum_cr")
    IN  IF SeriesSum(weights) > 0
        THEN Divide(SeriesSum(Times(Column(group_, col), weights)),
                    SeriesSum(weights))
        ELSE SeriesMean(Column(group_, col))

MetricValues == { 10 * k : k \in 1..MaxMetric } \cup {NaN}
GroupRows == [sharpe : MetricValues, aum_cr : -1..MaxAum]
Groups == UNION { [1..n -> GroupRows] : n \in 1..MaxGroup }

AggInit ==
    /\ group \in Groups
    /\ avg = <<>>
    /\ category_stats = <<>>
    /\ NoRender
    /\ NoParetoCall

\* weighted_avg(g, 'sharpe') for one group of the groupby.
Aggregate ==
    /\ avg = <<>>
    /\ avg' = <<weighted_avg(group, "sharpe")>>
    /\ UNCHANGED <<group, category_stats, page_vars, pareto_vars>>

NextAgg == Aggregate

SpecAgg == AggInit /\ [][NextAgg]_vars

\* The sum of f[1..n], for a group whose metric and AUM are all populated.
RECURSIVE Sigma(_, _)
Sigma(f, n) == IF n = 0 THEN 0 ELSE f[n] + Sigma(f, n - 1)

TotalAum == Sigma([k \in DOMAIN group |-> group[k].aum_cr], Len(group))
TotalMetric == Sigma([k \in DOMAIN group |-> group[k].sharpe], Len(group))
TotalWeighted ==
    Sigma([k \in DOMAIN group |-> group[k].sharpe * group[k].aum_cr], Len(group))
Populated == \A k \in DOMAIN group : ~isna(group[k].sharpe) /\ ~isna(group[k].aum_cr)

\* C5: for a group with metric and AUM fully populated, weighted_avg is
\* sum(m_i * aum_i) / sum(aum_i) when sum(aum_i) > 0, and the unweighted
\* mean sum(m_i) / n when sum(aum_i) is not greater than 0.
C5_WeightedAverage ==
    (avg # <<>> /\ Populated) =>
        /\ avg[1].den > 0
        /\ IF TotalAum > 0
           THEN avg[1].num * TotalAum = TotalWeighted * avg[1].den
           ELSE avg[1].num * Len(group) = TotalMetric * avg[1].den

\* AUM [0, 0, 0] with metric values [10, 20, 30] gave the unweighted mean 20.
C5_Witness ==
    /\ avg # <<>>
    /\ group = <<[sharpe |-> 10, aum_cr |-> 0], [sharpe |-> 20, aum_cr |-> 0],
                 [sharpe |-> 30, aum_cr |-> 0]>>
    /\ avg[1].den > 0
    /\ avg[1].num = 20 * avg[1].den

\* ------------------------------------------------- Category Explorer page
\* The metrics category_stats always aggregates, besides the two axes.
StatMetrics == {"sharpe", "expense_ratio", "sd", "return_1y", "return_3y",
                "return_5y"}

\* The pd.Series built for one group g of the groupby, with the group key
\* that reset_index turns into a column.
CategoryRow(g, cat, xc, yc) ==
    [c \in {xc, yc} \cup StatMetrics \cup {"aum_cr", "num_funds", "fund_category"} |->
        IF c = "fund_category" THEN cat
        ELSE IF c = "aum_cr" THEN SeriesSum(Column(g, "aum_cr"))
        ELSE IF c = "num_funds" THEN Len(g)
        ELSE weighted_avg(g, c)]

\* df_cat.groupby('fund_category').apply(...).reset_index(): one row for each
\* category that has a row in df_cat, in sorted order.
CategoryStats(df_cat, xc, yc) ==
    LET cats == all_categories(df_cat)
    IN  [n \in DOMAIN cats |->
            CategoryRow(SelectCategory(df_cat, cats[n]), cats[n], xc, yc)]

\* df[df['fund_category'].isin(selected_categories)], every category being
\* selected.
FilterCategories(df_) ==
    LET Selected(r) == r["fund_category"] \in Range(all_categories(df_))
    IN  SelectSeq(df_, Selected)

ExplorerInit ==
    /\ parquet \in ParquetFiles
    /\ cache = <<>>
    /\ df = <<>>
    /\ sidebar = NoSidebar
    /\ pc = "waiting"
    /\ df_single = <<>>
    /\ warned = FALSE
    /\ stats = NoStats
    /\ NoParetoCall
    /\ NoAggregation

\* A run of the Category Explorer script up to category_stats: load_data
\* (read once, then served from the cache), the two selectboxes, dropna on
\* the axes and AUM, and the AUM-weighted aggregation by category.
RunExplorer ==
    /\ pc = "waiting"
    /\ LET table == IF cache = <<>> THEN load_data(parquet) ELSE cache[1]
       IN  /\ cache' = <<table>>
           /\ df' = table
           /\ \E period \in IF cache = <<>> THEN {"5 Years"} ELSE Periods,
                 view \in IF cache = <<>> THEN {"Return vs Risk (SD)"}
                          ELSE DOMAIN view_options :
                LET s == [selected_period |-> period, selected_view |-> view]
                    df_cat == get_filtered_data(FilterCategories(table),
                                                x_col(s), y_col(s))
                IN  /\ sidebar' = s
                    /\ category_stats' = CategoryStats(df_cat, x_col(s), y_col(s))
    /\ pc' = "shown"
    /\ UNCHANGED <<parquet, df_single, warned, stats, pareto_vars, group, avg>>

\* The run is over: its variables are gone and the cache stays.
EndExplorerRun ==
    /\ pc = "shown"
    /\ pc' = "waiting"
    /\ df' = <<>>
    /\ sidebar' = NoSidebar
    /\ category_stats' = <<>>
    /\ UNCHANGED <<parquet, cache, df_single, warned, stats, pareto_vars, group, avg>>

NextExplorer == RunExplorer \/ EndExplorerRun

SpecExplorer == ExplorerInit /\ [][NextExplorer]_vars

\* The funds of the table that are of category cat and have both axes.
KeptFunds(cat) ==
    { k \in DOMAIN df :
        /\ df[k]["fund_category"] = cat
        /\ ~isna(df[k][x_col(sidebar)])
        /\ ~isna(df[k][y_col(sidebar)]) }

\* The sum of f over the finite set S of funds.
RECURSIVE SumOver(_, _)
SumOver(S, f) ==
    IF S = {} THEN 0
    ELSE LET k == CHOOSE k \in S : TRUE
         IN  f[k] + SumOver(S \ {k}, f)

FundAum == [k \in DOMAIN df |-> df[k]["aum_cr"]]
FundWeighted(m) == [k \in DOMAIN df |-> df[k][m] * df[k]["aum_cr"]]

\* C11: the aggregation keeps exactly the funds that have the x metric, the
\* y metric and AUM (AUM is never missing after the load); for every other
\* aggregated metric m a kept fund without m adds nothing to the numerator
\* while its AUM stays in the denominator: with total AUM > 0 the value
\* shown is the sum of m_i * aum_i over the kept funds that have m, divided
\* by the AUM of all kept funds of the category.
C11_MissingMetricKeepsWeight ==
    pc = "shown" =>
        /\ \A k \in DOMAIN df : ~isna(df[k]["aum_cr"])
        /\ { row["fund_category"] : row \in Range(category_stats) }
               = { c \in Range(Categories) : KeptFunds(c) # {} }
        /\ \A row \in Range(category_stats) :
               LET kept == KeptFunds(row["fund_category"])
                   total == SumOver(kept, FundAum)
               IN  /\ row["num_funds"] = Cardinality(kept)
                   /\ row["aum_cr"] = total
                   /\ \A m \in StatMetrics \ {x_col(sidebar), y_col(sidebar)} :
                          total > 0 =>
                              /\ row[m].den > 0
                              /\ row[m].num * total =
                                     SumOver({ k \in kept : ~isna(df[k][m]) },
                                             FundWeighted(m)) * row[m].den

\* A category of two kept funds with AUM, one of them without sharpe (not an
\* axis): its sharpe is the other fund's sharpe * AUM over the AUM of both.
C11_Witness ==
    /\ pc = "shown"
    /\ \E row \in Range(category_stats) :
           LET kept == KeptFunds(row["fund_category"])
           IN  /\ row["num_funds"] = 2
               /\ \E k, j \in kept :
                      /\ isna(df[k]["sharpe"]) /\ df[k]["aum_cr"] > 0
                      /\ ~isna(df[j]["sharpe"]) /\ df[j]["sharpe"] > 0
                      /\ df[j]["aum_cr"] > 0
                      /\ row["sharpe"].num * (df[k]["aum_cr"] + df[j]["aum_cr"])
                             = df[j]["sharpe"] * df[j]["aum_cr"] * row["sharpe"].den

====
